---- MODULE Spec2Model ----
(***************************************************************************)
(* Model of the database-resilient request handling layer of the visitor   *)
(* analytics server (server/src/index.ts): the retry engine withDbRetry,   *)
(* the connectivity flag dbConnected, and the HTTP handlers built on it.   *)
(*                                                                         *)
(* Node runs the handlers on one thread; a handler is suspended only at an *)
(* await.  Every action below is one run-to-completion segment between two *)
(* awaits, so the interleavings of the actions are exactly the schedules   *)
(* the event loop can produce.                                             *)
(***************************************************************************)
EXTENDS Integers, Sequences, FiniteSets, TLC

VARIABLES
    dbConnected,    \* let dbConnected = false
    lastDbCheck,    \* let lastDbCheck = 0
    requestCount,   \* let requestCount = 0
    trackingCount,  \* let trackingCount = 0
    errorCount,     \* let errorCount = 0
    req,            \* one record per request being served (handler + withDbRetry frame)
    reader,         \* let reader: ReaderModel | null = null  (geoip.ts)
    visits,         \* the rows of the Visit table, in the order prisma.visit.create wrote them
    mon             \* the locals of check_health in scripts/automation/health-check.sh

vars == <<dbConnected, lastDbCheck, requestCount, trackingCount, errorCount, req,
          reader, visits, mon>>

(***************************************************************************)
(* Bounds of the model.                                                    *)
(***************************************************************************)
\* requests received during one run (caps the three counters)
MaxRequests == 2
\* largest maxRetries of a direct withDbRetry call with caller-chosen options
MaxCallRetries == 3

\* the requests that can be in flight at the same time
Slots == {"r1", "r2"}

(***************************************************************************)
(* Strings.  A string is a sequence of tokens; String.prototype.includes   *)
(* is the search for a contiguous run of tokens (case-sensitive, since     *)
(* tokens are compared for equality).                                      *)
(***************************************************************************)
Includes(s, needle) ==
    \E i \in 0..(Len(s) - Len(needle)) :
        \A j \in 1..Len(needle) : s[i + j] = needle[j]

(***************************************************************************)
(* Values an operation can throw.  isErr tells whether the value is an     *)
(* Error object (error instanceof Error); msg is error.message for an      *)
(* Error and String(error) for anything else.                              *)
(***************************************************************************)
\* let lastError: Error | null = null
NoError == [isErr |-> FALSE, msg |-> <<>>]

ErrRefused  == [isErr |-> TRUE,  msg |-> <<"connect", "ECONNREFUSED", "127.0.0.1:5432">>]
ErrReach    == [isErr |-> TRUE,  msg |-> <<"Can't", "reach", "database", "server">>]
ErrFkConn   == [isErr |-> TRUE,  msg |-> <<"Foreign", "key", "constraint", "violated:", "connection", "_id">>]
ErrUnique   == [isErr |-> TRUE,  msg |-> <<"Unique", "constraint", "failed">>]
StrTimeout  == [isErr |-> FALSE, msg |-> <<"timeout">>]
StrBad      == [isErr |-> FALSE, msg |-> <<"bad", "input">>]

\* the insert was applied but its response never arrived: the driver gives up
ErrLost     == [isErr |-> TRUE,  msg |-> <<"Query", "read", "timeout">>]

\* what a Prisma call of a handler rejects with: Error objects
PrismaErrors == {ErrRefused, ErrReach, ErrUnique}

\* what the operation of a direct withDbRetry call can throw: any value
ThrownValues == {ErrRefused, ErrFkConn, ErrUnique, StrTimeout, StrBad}

ThrownBy(route) == IF route = "call" THEN ThrownValues ELSE PrismaErrors

\* error instanceof Error ? error : new Error(String(error))
ToError(v) == IF v.isErr THEN v ELSE [isErr |-> TRUE, msg |-> v.msg]

\* the isRetryable test of withDbRetry
\* (variant) the retryable test lacks ECONNREFUSED
IsRetryableNoRefused(e) ==
    \/ Includes(e.msg, <<"connection">>)
    \/ Includes(e.msg, <<"timeout">>)
    \/ Includes(e.msg, <<"ETIMEDOUT">>)
    \/ Includes(e.msg, <<"Can't", "reach", "database">>)

IsRetryable(e) ==
    \/ Includes(e.msg, <<"ECONNREFUSED">>)
    \/ Includes(e.msg, <<"connection">>)
    \/ Includes(e.msg, <<"timeout">>)
    \/ Includes(e.msg, <<"ETIMEDOUT">>)
    \/ Includes(e.msg, <<"Can't", "reach", "database">>)

\* (variant) the catch block answers 503 for every Error object
IsDbErrorAnyError(e) == e.isErr

\* the isDbError test of the /api/track and /api/stats catch blocks
IsDbError(e) ==
    e.isErr /\ (Includes(e.msg, <<"connection">>) \/ Includes(e.msg, <<"ECONNREFUSED">>))

(***************************************************************************)
(* Retry options.                                                          *)
(***************************************************************************)
DefaultOptions == [maxRetries |-> 5,  initialDelayMs |-> 1000, maxDelayMs |-> 30000]
HealthOptions  == [maxRetries |-> 10, initialDelayMs |-> 3000, maxDelayMs |-> 15000]
ReadyOptions   == [maxRetries |-> 12, initialDelayMs |-> 5000, maxDelayMs |-> 15000]
TrackOptions   == [maxRetries |-> 8,  initialDelayMs |-> 3000, maxDelayMs |-> 15000]
StatsOptions   == [maxRetries |-> 8,  initialDelayMs |-> 3000, maxDelayMs |-> 15000]

\* options a direct caller of withDbRetry may pass ({} gives the defaults)
CallOptions ==
    {DefaultOptions} \cup
    [maxRetries : 1..MaxCallRetries, initialDelayMs : {10000}, maxDelayMs : {15000}]

Routes == {"health", "ready", "track_post", "track_get", "stats"}

OptionsOf(route) ==
    CASE route = "health" -> HealthOptions
      [] route = "ready"  -> ReadyOptions
      [] route = "stats"  -> StatsOptions
      [] OTHER            -> TrackOptions

Min(a, b) == IF a <= b THEN a ELSE b

\* (variant) the delay is not capped at maxDelayMs
BackoffDelayUncapped(opts, attempt) == opts.initialDelayMs * 2^(attempt - 1)

\* (variant) the delay grows linearly: initialDelayMs * attempt
BackoffDelayLinear(opts, attempt) ==
    Min(opts.initialDelayMs * attempt, opts.maxDelayMs)

\* Math.min(initialDelayMs * Math.pow(2, attempt - 1), maxDelayMs)
BackoffDelay(opts, attempt) ==
    Min(opts.initialDelayMs * 2^(attempt - 1), opts.maxDelayMs)

RECURSIVE SumSeq(_)
SumSeq(s) == IF s = <<>> THEN 0 ELSE s[1] + SumSeq(Tail(s))

(***************************************************************************)
(* Site identifier resolution.  An optional string is <<>> (undefined) or  *)
(* <<s>>; a URL or Host value s is its token sequence, for instance        *)
(* <<"https", "://", "b.example.com", "/x">> and <<"c.example.com", ":",   *)
(* "3000">>.                                                               *)
(***************************************************************************)
None == <<>>
Some(s) == <<s>>
\* JavaScript truthiness of an optional string: neither undefined nor ""
Truthy(o) == o # None /\ o[1] # <<>>

\* new URL(s) does not throw: scheme, then "://" and a host, or ":" and a path
UrlParses(s) ==
    /\ Len(s) >= 2
    /\ s[1] \in {"http", "https", "android-app", "about"}
    /\ \/ s[2] = "://" /\ Len(s) >= 3 /\ s[3] \notin {"/", ":", "?", "#"}
       \/ s[2] = ":" /\ s[1] \notin {"http", "https"}

\* url.hostname: the host without port, "" for a URL that has no authority
UrlHostname(s) == IF s[2] = "://" THEN <<s[3]>> ELSE <<>>

\* host.split(":")[0]: the tokens before the first ":"
RECURSIVE BeforeColon(_)
BeforeColon(s) ==
    IF s = <<>> \/ s[1] = ":" THEN <<>> ELSE <<s[1]>> \o BeforeColon(Tail(s))

\* (variant) the Referer header is consulted before the referrer field
ResolveSiteIdHeaderFirst(headers, explicitSiteId, explicitReferrer) ==
    IF Truthy(explicitSiteId) THEN explicitSiteId
    ELSE LET headerReferrer ==
                 IF Truthy(headers.referer) THEN headers.referer
                 ELSE IF Truthy(explicitReferrer) THEN explicitReferrer
                 ELSE headers.referrer
         IN  IF /\ Truthy(headerReferrer)
                /\ UrlParses(headerReferrer[1])
                /\ UrlHostname(headerReferrer[1]) # <<>>
             THEN Some(UrlHostname(headerReferrer[1]))
             ELSE IF Truthy(headers.host)
             THEN Some(BeforeColon(headers.host[1]))
             ELSE None

\* (variant) the referer is consulted before the explicit site identifier
ResolveSiteIdRefererFirst(headers, explicitSiteId, explicitReferrer) ==
    LET headerReferrer ==
            IF Truthy(explicitReferrer) THEN explicitReferrer
            ELSE IF Truthy(headers.referer) THEN headers.referer
            ELSE headers.referrer
    IN  IF /\ Truthy(headerReferrer)
           /\ UrlParses(headerReferrer[1])
           /\ UrlHostname(headerReferrer[1]) # <<>>
        THEN Some(UrlHostname(headerReferrer[1]))
        ELSE IF Truthy(explicitSiteId) THEN explicitSiteId
        ELSE IF Truthy(headers.host)
        THEN Some(BeforeColon(headers.host[1]))
        ELSE None

\* resolveSiteId(request, explicitSiteId, explicitReferrer)
ResolveSiteId(headers, explicitSiteId, explicitReferrer) ==
    IF Truthy(explicitSiteId) THEN explicitSiteId
    ELSE LET headerReferrer ==
                 IF Truthy(explicitReferrer) THEN explicitReferrer
                 ELSE IF Truthy(headers.referer) THEN headers.referer
                 ELSE headers.referrer
         IN  IF /\ Truthy(headerReferrer)
                /\ UrlParses(headerReferrer[1])
                /\ UrlHostname(headerReferrer[1]) # <<>>
             THEN Some(UrlHostname(headerReferrer[1]))
             ELSE IF Truthy(headers.host)
             THEN Some(BeforeColon(headers.host[1]))
             ELSE None

\* tracking requests the clients send: headers, the site_id / referrer fields
\* of the body or query, and request.ip
TrackRequests ==
    { [site_id |-> Some(<<"a">>), referrer |-> None,
       headers |-> [referer |-> None, referrer |-> None,
                    host |-> Some(<<"c.example.com", ":", "3000">>)],
       ip |-> <<"127.0.0.1">>],
      [site_id |-> None, referrer |-> None,
       headers |-> [referer |-> None, referrer |-> None, host |-> None],
       ip |-> <<"127.0.0.1">>] }

\* the shapes of the inputs of resolveSiteId
SiteIdFields == {None, Some(<<>>), Some(<<"a">>)}
ReferrerFields ==
    {None, Some(<<"https", "://", "d.example.com", "/">>), Some(<<"not", "a", "url">>)}
RefererHeaders ==
    {None, Some(<<"https", "://", "b.example.com", ":", "8443", "/x">>),
     Some(<<"b.example.com", "/x">>), Some(<<"about", ":", "blank">>)}
HostHeaders ==
    {None, Some(<<"c.example.com">>), Some(<<"c.example.com", ":", "3000">>),
     Some(<<"10.0.0.1", ":", "8080">>), Some(<<"[", ":", ":", "1", "]">>),
     Some(<<"[", ":", ":", "1", "]", ":", "3000">>), Some(<<":", "3000">>)}

\* requests that carry an explicit site_id, with every referrer and Referer
ExplicitIdRequests ==
    [site_id : {Some(<<"a">>)}, referrer : ReferrerFields,
     headers : [referer : RefererHeaders, referrer : {None},
                host : {None, Some(<<"c.example.com", ":", "3000">>),
                        Some(<<"[", ":", ":", "1", "]", ":", "3000">>)}],
     ip : {<<"8.8.8.8">>}]

\* requests without a usable site_id, with every referrer and Referer
RefererRequests ==
    [site_id : {None, Some(<<>>)}, referrer : ReferrerFields,
     headers : [referer : RefererHeaders, referrer : {None},
                host : {None, Some(<<"c.example.com", ":", "3000">>)}],
     ip : {<<"8.8.8.8">>}]

\* requests without a usable site_id or referer, with every Host
HostRequests ==
    [site_id : {None}, referrer : {None, Some(<<"not", "a", "url">>)},
     headers : [referer : {None, Some(<<"b.example.com", "/x">>),
                           Some(<<"about", ":", "blank">>)},
                referrer : {None}, host : HostHeaders],
     ip : {<<"8.8.8.8">>}]

\* requests that carry the Referrer header
ReferrerHeaderRequests ==
    [site_id : {None}, referrer : {None},
     headers : [referer : {None, Some(<<"b.example.com", "/x">>)},
                referrer : {Some(<<"http", "://", "e.example.com", "/">>)},
                host : {Some(<<"c.example.com">>)}],
     ip : {<<"8.8.8.8">>}]

\* the bodies POST /api/track receives
AllTrackRequests ==
    ExplicitIdRequests \cup RefererRequests \cup HostRequests
        \cup ReferrerHeaderRequests \cup TrackRequests

\* requests of one site from three addresses: one the city database knows
\* without a city name, one it knows in full, and localhost
GeoRequests ==
    [site_id : {Some(<<"a">>)}, referrer : {None},
     headers : [referer : {None}, referrer : {None}, host : {Some(<<"c.example.com">>)}],
     ip : {<<"8.8.8.8">>, <<"81.2.69.160">>, <<"127.0.0.1">>}]

\* the query strings GET /api/track receives
QueryTrackRequests == RefererRequests \cup TrackRequests

\* visits of site "a" sent by the tracking script: with the referrer field,
\* or without it and with a Referer header
WriteRequests ==
    {t \in [site_id : {Some(<<"a">>)},
            referrer : {None, Some(<<"https", "://", "d.example.com", "/">>)},
            headers : [referer : {None, Some(<<"https", "://", "b.example.com", ":",
                                               "8443", "/x">>)},
                       referrer : {None},
                       host : {Some(<<"c.example.com", ":", "3000">>)}],
            ip : {<<"127.0.0.1">>}] :
        Truthy(t.referrer) # Truthy(t.headers.referer)}

NoInput ==
    [site_id |-> None, referrer |-> None,
     headers |-> [referer |-> None, referrer |-> None, host |-> None], ip |-> <<>>]

(***************************************************************************)
(* Geolocation (geoip.ts).  reader is "none" until Reader.open has loaded   *)
(* the city database and "loaded" afterwards.  An optional value is <<>>   *)
(* (null / undefined) or <<v>>.                                            *)
(***************************************************************************)
\* reader.city(ip): the response for an address of the database; the lookup
\* throws for an address outside of it (localhost, a private network)
CityDb ==
    [ip \in {<<"8.8.8.8">>, <<"81.2.69.160">>} |->
        IF ip = <<"8.8.8.8">>
        THEN [city |-> None, country |-> Some(<<"United", "States">>),
              isoCode |-> Some(<<"US">>)]
        ELSE [city |-> Some(<<"London">>), country |-> Some(<<"United", "Kingdom">>),
              isoCode |-> Some(<<"GB">>)]]

\* x || null for an optional string: "" and undefined become null
OrNull(o) == IF Truthy(o) THEN o ELSE None

\* getGeoData(ip): null without a reader or when the lookup throws
GetGeoData(rd, ip) ==
    IF rd = "none" THEN None
    ELSE IF ip \notin DOMAIN CityDb THEN None
    ELSE Some([city |-> OrNull(CityDb[ip].city),
               country |-> OrNull(CityDb[ip].country),
               countryCode |-> OrNull(CityDb[ip].isoCode)])

NoRow ==
    [site_id |-> <<>>, ip_address |-> <<>>, city |-> None, country |-> None,
     countryCode |-> None, referrer |-> None]

\* (variant) the row takes its referrer from the Referer header only
TrackVisitRowHeaderOnly(rd, t, site_id) ==
    LET found == GetGeoData(rd, t.ip)
        geo == IF found = None
               THEN [city |-> None, country |-> None, countryCode |-> None]
               ELSE found[1]
    IN  [site_id |-> site_id, ip_address |-> t.ip, city |-> geo.city,
         country |-> geo.country, countryCode |-> geo.countryCode,
         referrer |-> t.headers.referer]

\* (variant) a visit that cannot be located is not recorded
TrackVisitRowSkipsNull(rd, t, site_id) ==
    LET found == GetGeoData(rd, t.ip) IN
    IF found = None THEN NoRow
    ELSE [site_id |-> site_id, ip_address |-> t.ip, city |-> found[1].city,
          country |-> found[1].country, countryCode |-> found[1].countryCode,
          referrer |-> IF Truthy(t.referrer) THEN t.referrer ELSE t.headers.referer]

\* trackVisit up to its await: the data handed to prisma.visit.create
TrackVisitRow(rd, t, site_id) ==
    LET found == GetGeoData(rd, t.ip)
        geo == IF found = None
               THEN [city |-> None, country |-> None, countryCode |-> None]
               ELSE found[1]
    IN  [site_id |-> site_id, ip_address |-> t.ip, city |-> geo.city,
         country |-> geo.country, countryCode |-> geo.countryCode,
         \* referrer: referrer || request.headers.referer
         referrer |-> IF Truthy(t.referrer) THEN t.referrer ELSE t.headers.referer]

(***************************************************************************)
(* A request record: the handler's position and the locals of the          *)
(* withDbRetry frame it awaits.                                            *)
(*   pc      idle | op (awaiting operation()) | wait (awaiting the timer)  *)
(*           | settled (withDbRetry's promise settled) | done (replied)    *)
(*   attempt the loop variable; calls counts the invocations of operation  *)
(*   waits   the delays passed to setTimeout so far, in order              *)
(*   thrown  the value the last failed operation() threw                   *)
(*   outcome none | resolved | rejected: the state of withDbRetry's promise*)
(*   siteId  the resolvedSiteId captured by the trackVisit closure         *)
(*   input   the tracking request (headers, body or query, request.ip)     *)
(*   row     the data of the pending prisma.visit.create                   *)
(*   resp    the reply sent                                                *)
(***************************************************************************)
NoResp == [code |-> 0, status |-> "-", database |-> "-", error |-> <<>>]

IdleReq ==
    [route |-> "none", pc |-> "idle", opts |-> DefaultOptions, attempt |-> 0,
     calls |-> 0, waits |-> <<>>, lastError |-> NoError, thrown |-> NoError,
     outcome |-> "none", siteId |-> <<>>, input |-> NoInput, row |-> NoRow,
     resp |-> NoResp]

\* (variant) a probe that finds dbConnected set trusts it: no operation() call
StartRetryTrustsCache(route, opts) ==
    IF dbConnected /\ route \in {"health", "ready"}
    THEN [IdleReq EXCEPT !.route = route, !.pc = "settled", !.opts = opts,
                         !.outcome = "resolved"]
    ELSE [IdleReq EXCEPT !.route = route, !.pc = "op", !.opts = opts,
                         !.attempt = 1, !.calls = 1]

\* withDbRetry entered: lastError = null, attempt = 1, operation() invoked
StartRetry(route, opts) ==
    [IdleReq EXCEPT !.route = route, !.pc = "op", !.opts = opts,
                    !.attempt = 1, !.calls = 1]

\* (variant) the success branch lacks its return: the loop goes on
AfterSuccessKeepsLooping(q) ==
    IF q.attempt < q.opts.maxRetries
    THEN [q EXCEPT !.pc = "op", !.attempt = @ + 1, !.calls = @ + 1]
    ELSE [q EXCEPT !.pc = "settled", !.outcome = "resolved"]

\* operation() resolved: return result
AfterSuccess(q) == [q EXCEPT !.pc = "settled", !.outcome = "resolved"]

\* (variant) attempt <= maxRetries: one retry too many
AfterFailureRetriesOnceMore(q, v) ==
    LET e == ToError(v) IN
    IF q.attempt <= q.opts.maxRetries /\ IsRetryable(e)
    THEN [q EXCEPT !.lastError = e, !.thrown = v, !.pc = "wait",
                   !.waits = Append(@, BackoffDelay(q.opts, q.attempt))]
    ELSE [q EXCEPT !.lastError = e, !.thrown = v, !.pc = "settled",
                   !.outcome = "rejected"]

\* (variant) no isRetryable test: every error is retried while attempts remain
AfterFailureRetriesAll(q, v) ==
    LET e == ToError(v) IN
    IF q.attempt < q.opts.maxRetries
    THEN [q EXCEPT !.lastError = e, !.thrown = v, !.pc = "wait",
                   !.waits = Append(@, BackoffDelay(q.opts, q.attempt))]
    ELSE [q EXCEPT !.lastError = e, !.thrown = v, !.pc = "settled",
                   !.outcome = "rejected", !.attempt = @ + 1]

\* (variant) the error is swallowed when the loop ends: no throw, undefined is returned
AfterFailureSwallows(q, v) ==
    LET e == ToError(v) IN
    IF q.attempt < q.opts.maxRetries /\ IsRetryable(e)
    THEN [q EXCEPT !.lastError = e, !.thrown = v, !.pc = "wait",
                   !.waits = Append(@, BackoffDelay(q.opts, q.attempt))]
    ELSE [q EXCEPT !.lastError = e, !.thrown = v, !.pc = "settled",
                   !.outcome = "resolved"]

\* (variant) lastError is assigned only while it is null: the first error is kept
AfterFailureKeepsFirst(q, v) ==
    LET e == ToError(v)
        kept == IF q.lastError = NoError THEN e ELSE q.lastError
    IN
    IF q.attempt < q.opts.maxRetries /\ IsRetryable(e)
    THEN [q EXCEPT !.lastError = kept, !.thrown = v, !.pc = "wait",
                   !.waits = Append(@, BackoffDelay(q.opts, q.attempt))]
    ELSE IF ~IsRetryable(e)
    THEN [q EXCEPT !.lastError = kept, !.thrown = v, !.pc = "settled",
                   !.outcome = "rejected"]
    ELSE [q EXCEPT !.lastError = kept, !.thrown = v, !.pc = "settled",
                   !.outcome = "rejected", !.attempt = @ + 1]

\* operation() threw v: the catch block, up to the next await or the throw
AfterFailure(q, v) ==
    LET e == ToError(v) IN
    IF q.attempt < q.opts.maxRetries /\ IsRetryable(e)
    THEN [q EXCEPT !.lastError = e, !.thrown = v, !.pc = "wait",
                   !.waits = Append(@, BackoffDelay(q.opts, q.attempt))]
    ELSE IF ~IsRetryable(e)
    THEN [q EXCEPT !.lastError = e, !.thrown = v, !.pc = "settled",
                   !.outcome = "rejected"]
    ELSE \* last attempt: attempt++ ends the loop, throw lastError
         [q EXCEPT !.lastError = e, !.thrown = v, !.pc = "settled",
                   !.outcome = "rejected", !.attempt = @ + 1]

\* (variant) attempt is one counter shared by all invocations
AfterTimerSharedAttempt(q) ==
    LET shared == CHOOSE n \in {req[s].attempt : s \in Slots} :
                      \A s \in Slots : req[s].attempt <= n
    IN [q EXCEPT !.pc = "op", !.attempt = shared + 1, !.calls = @ + 1]

\* the timer fired: attempt++, operation() invoked again
AfterTimer(q) == [q EXCEPT !.pc = "op", !.attempt = @ + 1, !.calls = @ + 1]

\* dbConnected after an attempt:  if (!dbConnected) dbConnected = true  /  dbConnected = false
\* (variant) a success leaves dbConnected as it was
FlagAfterSuccessKeeps(flag) == flag

\* (variant) a success does not set dbConnected while another call is between
\* a failed attempt and its retry
FlagAfterSuccessUnlessWaiting(flag) ==
    IF \E s \in Slots : req[s].pc = "wait" THEN flag ELSE TRUE

FlagAfterSuccess(flag) == IF ~flag THEN TRUE ELSE flag
\* (variant) dbConnected is cleared only for an error that is not retried
FlagAfterFailureOnlyFatal(flag, e) == IF IsRetryable(e) THEN flag ELSE FALSE
FlagAfterFailure(flag, e) == FALSE

(***************************************************************************)
(* Replies.                                                                *)
(***************************************************************************)
Reply(code, status, database, error) ==
    [code |-> code, status |-> status, database |-> database, error |-> error]

\* (variant) /health answers from the cached flag instead of its own check
HealthReplyFromCache(q) ==
    IF dbConnected
    THEN Reply(200, "healthy", "connected", <<>>)
    ELSE Reply(503, "unhealthy", "disconnected",
               IF q.lastError.isErr THEN q.lastError.msg ELSE <<"Unknown", "error">>)

\* (variant) the catch block lacks reply.code(503)
HealthReplyForgetsCode(q) ==
    IF q.outcome = "resolved"
    THEN Reply(200, "healthy", "connected", <<>>)
    ELSE Reply(200, "unhealthy", "disconnected",
               IF q.lastError.isErr THEN q.lastError.msg ELSE <<"Unknown", "error">>)

\* the return / catch of the /health handler
HealthReplyOf(q) ==
    IF q.outcome = "resolved"
    THEN Reply(200, "healthy", "connected", <<>>)
    ELSE Reply(503, "unhealthy", "disconnected",
               IF q.lastError.isErr THEN q.lastError.msg ELSE <<"Unknown", "error">>)

\* (variant) /ready lacks its try/catch: the rejection leaves the handler and
\* fastify answers 500 with its own error body
ReadyReplyUncaught(q) ==
    IF q.outcome = "resolved"
    THEN Reply(200, "ready", "-", <<>>)
    ELSE Reply(500, "-", "-", q.lastError.msg)

\* the return / catch of the /ready handler
ReadyReplyOf(q) ==
    IF q.outcome = "resolved"
    THEN Reply(200, "ready", "-", <<>>)
    ELSE Reply(503, "not ready", "-",
               IF q.lastError.isErr THEN q.lastError.msg ELSE <<"Database", "unavailable">>)

\* the return / catch of the /api/track handlers
TrackReplyOf(q) ==
    IF q.outcome = "resolved"
    THEN Reply(200, "success", "-", <<>>)
    ELSE IF IsDbError(q.lastError)
    THEN Reply(503, "-", "-", <<"Service", "temporarily", "unavailable,", "please", "retry">>)
    ELSE Reply(500, "-", "-", <<"Tracking", "failed">>)

\* the return / catch of the /api/stats handler
StatsReplyOf(q) ==
    IF q.outcome = "resolved"
    THEN Reply(200, "stats", "-", <<>>)
    ELSE IF IsDbError(q.lastError)
    THEN Reply(503, "-", "-", <<"Service", "temporarily", "unavailable,", "please", "retry">>)
    ELSE Reply(500, "-", "-", <<"Failed", "to", "fetch", "stats">>)

(***************************************************************************)
(* scripts/automation/health-check.sh: check_health polls GET /health.     *)
(* mon holds its position and locals: retries, the last curl status code   *)
(* ("-" before the first), and the seconds slept so far, in order.         *)
(***************************************************************************)
MAX_RETRIES == 3
RETRY_DELAY == 5

IdleMon == [pc |-> "loop", retries |-> 0, response |-> "-", sleeps |-> <<>>]

\* the tail of the loop body after an attempt that did not pass: retries is
\* incremented, then either sleep RETRY_DELAY or leave the loop and return 1
AfterCheckFailed(m, response) ==
    LET retries == m.retries + 1 IN
    IF retries < MAX_RETRIES
    THEN [m EXCEPT !.retries = retries, !.response = response, !.pc = "sleep",
                   !.sleeps = Append(@, RETRY_DELAY)]
    ELSE [m EXCEPT !.retries = retries, !.response = response, !.pc = "failed"]

(***************************************************************************)
(* The initial state: the module-level declarations.                       *)
(***************************************************************************)
Init ==
    /\ dbConnected = FALSE
    /\ lastDbCheck = 0
    /\ requestCount = 0
    /\ trackingCount = 0
    /\ errorCount = 0
    /\ req = [r \in Slots |-> IdleReq]
    /\ reader = "none"
    /\ visits = <<>>
    /\ mon = IdleMon

\* a slot is free when it holds no request or one that has been answered
Free(r) == req[r].pc \in {"idle", "done"} \/ (req[r].route = "call" /\ req[r].pc = "settled")

(***************************************************************************)
(* Requests arrive: the onRequest hook, then the handler up to its await.  *)
(***************************************************************************)
Health(r) ==
    /\ Free(r) /\ requestCount < MaxRequests
    /\ requestCount' = requestCount + 1
    /\ req' = [req EXCEPT ![r] = StartRetry("health", HealthOptions)]
    /\ UNCHANGED <<dbConnected, lastDbCheck, trackingCount, errorCount, reader, visits, mon>>

Ready(r) ==
    /\ Free(r) /\ requestCount < MaxRequests
    /\ requestCount' = requestCount + 1
    /\ req' = [req EXCEPT ![r] = StartRetry("ready", ReadyOptions)]
    /\ UNCHANGED <<dbConnected, lastDbCheck, trackingCount, errorCount, reader, visits, mon>>

\* (variant) the handler lacks the 400 check: withDbRetry runs with an empty site
TrackNoValidation(r, route, t) ==
    /\ Free(r) /\ requestCount < MaxRequests
    /\ requestCount' = requestCount + 1
    /\ LET resolvedSiteId == ResolveSiteId(t.headers, t.site_id, t.referrer)
           site == IF Truthy(resolvedSiteId) THEN resolvedSiteId[1] ELSE <<>>
       IN  req' = [req EXCEPT ![r] =
                     [StartRetry(route, TrackOptions) EXCEPT
                        !.siteId = site, !.input = t,
                        !.row = TrackVisitRow(reader, t, site)]]
    /\ UNCHANGED <<dbConnected, lastDbCheck, trackingCount, errorCount, reader, visits, mon>>

\* (variant) the handler tests resolvedSiteId === undefined: an empty string passes
TrackChecksUndefinedOnly(r, route, t) ==
    /\ Free(r) /\ requestCount < MaxRequests
    /\ requestCount' = requestCount + 1
    /\ LET resolvedSiteId == ResolveSiteId(t.headers, t.site_id, t.referrer) IN
       req' = [req EXCEPT ![r] =
                 IF resolvedSiteId = None
                 THEN [IdleReq EXCEPT !.route = route, !.pc = "done", !.input = t,
                          !.resp = Reply(400, "-", "-", <<"site_id", "is", "required">>)]
                 ELSE [StartRetry(route, TrackOptions) EXCEPT
                          !.siteId = resolvedSiteId[1], !.input = t,
                          !.row = TrackVisitRow(reader, t, resolvedSiteId[1])]]
    /\ UNCHANGED <<dbConnected, lastDbCheck, trackingCount, errorCount, reader, visits, mon>>

\* POST and GET /api/track: resolve the site, 400 without one, else withDbRetry
Track(r, route, t) ==
    /\ Free(r) /\ requestCount < MaxRequests
    /\ requestCount' = requestCount + 1
    /\ LET resolvedSiteId == ResolveSiteId(t.headers, t.site_id, t.referrer) IN
       req' = [req EXCEPT ![r] =
                 IF ~Truthy(resolvedSiteId)
                 THEN [IdleReq EXCEPT !.route = route, !.pc = "done", !.input = t,
                          !.resp = Reply(400, "-", "-", <<"site_id", "is", "required">>)]
                 ELSE [StartRetry(route, TrackOptions) EXCEPT
                          !.siteId = resolvedSiteId[1], !.input = t,
                          !.row = TrackVisitRow(reader, t, resolvedSiteId[1])]]
    /\ UNCHANGED <<dbConnected, lastDbCheck, trackingCount, errorCount, reader, visits, mon>>

TrackPost(r) == \E t \in TrackRequests : Track(r, "track_post", t)

TrackGet(r) == \E t \in TrackRequests : Track(r, "track_get", t)

\* the same two handlers, reached by every shape of request
TrackPostAny(r) == \E t \in AllTrackRequests : Track(r, "track_post", t)

TrackGetAny(r) == \E t \in QueryTrackRequests : Track(r, "track_get", t)

\* POST /api/track with the bodies of WriteRequests
TrackPostWrite(r) == \E t \in WriteRequests : Track(r, "track_post", t)

\* POST /api/track from the addresses of GeoRequests
TrackPostGeo(r) == \E t \in GeoRequests : Track(r, "track_post", t)

Stats(r) ==
    /\ Free(r) /\ requestCount < MaxRequests
    /\ requestCount' = requestCount + 1
    /\ req' = [req EXCEPT ![r] = StartRetry("stats", StatsOptions)]
    /\ UNCHANGED <<dbConnected, lastDbCheck, trackingCount, errorCount, reader, visits, mon>>

\* withDbRetry(operation, options) called directly
Call(r) ==
    /\ Free(r)
    /\ \E opts \in CallOptions : req' = [req EXCEPT ![r] = StartRetry("call", opts)]
    /\ UNCHANGED <<dbConnected, lastDbCheck, requestCount, trackingCount, errorCount, reader, visits, mon>>

(***************************************************************************)
(* withDbRetry: the continuation of  await operation()  and of the timer.  *)
(***************************************************************************)
IsTrack(q) == q.route \in {"track_post", "track_get"}

OperationResolves(r) ==
    /\ req[r].pc = "op"
    /\ trackingCount' = IF IsTrack(req[r]) THEN trackingCount + 1 ELSE trackingCount
    /\ visits' = IF IsTrack(req[r]) THEN Append(visits, req[r].row) ELSE visits
    /\ dbConnected' = FlagAfterSuccess(dbConnected)
    /\ req' = [req EXCEPT ![r] = AfterSuccess(@)]
    /\ UNCHANGED <<lastDbCheck, requestCount, errorCount, reader, mon>>

\* operation() of request r rejects with v: the catch block of withDbRetry
Throws(r, v) ==
    /\ req[r].pc = "op"
    /\ dbConnected' = FlagAfterFailure(dbConnected, ToError(v))
    /\ req' = [req EXCEPT ![r] = AfterFailure(@, v)]
    /\ UNCHANGED <<lastDbCheck, requestCount, trackingCount, errorCount, reader, visits, mon>>

OperationThrows(r) == \E v \in ThrownBy(req[r].route) : Throws(r, v)

\* prisma.visit.create of a tracking request is applied by the database, but
\* the response is lost and the call rejects with a timeout: the row exists,
\* trackingCount++ is not reached and withDbRetry sees a retryable failure
ResponseLost(r) ==
    /\ req[r].pc = "op" /\ IsTrack(req[r])
    /\ visits' = Append(visits, req[r].row)
    /\ dbConnected' = FlagAfterFailure(dbConnected, ErrLost)
    /\ req' = [req EXCEPT ![r] = AfterFailure(@, ErrLost)]
    /\ UNCHANGED <<lastDbCheck, requestCount, trackingCount, errorCount, reader, mon>>

\* the operation rejects with any value, an Error object or not
OperationThrowsAny(r) == \E v \in ThrownValues : Throws(r, v)

TimerFires(r) ==
    /\ req[r].pc = "wait"
    /\ LET q == AfterTimer(req[r]) IN
       req' = [req EXCEPT ![r] =
                 IF IsTrack(q)
                 THEN [q EXCEPT !.row = TrackVisitRow(reader, q.input, q.siteId)]
                 ELSE q]
    /\ UNCHANGED <<dbConnected, lastDbCheck, requestCount, trackingCount, errorCount, reader, visits, mon>>

(***************************************************************************)
(* The handlers resume after  await withDbRetry(...)  and reply.           *)
(***************************************************************************)
HealthReply(r) ==
    /\ req[r].pc = "settled" /\ req[r].route = "health"
    /\ req' = [req EXCEPT ![r].pc = "done", ![r].resp = HealthReplyOf(req[r])]
    /\ UNCHANGED <<dbConnected, lastDbCheck, requestCount, trackingCount, errorCount, reader, visits, mon>>

ReadyReply(r) ==
    /\ req[r].pc = "settled" /\ req[r].route = "ready"
    /\ req' = [req EXCEPT ![r].pc = "done", ![r].resp = ReadyReplyOf(req[r])]
    /\ UNCHANGED <<dbConnected, lastDbCheck, requestCount, trackingCount, errorCount, reader, visits, mon>>

TrackReply(r) ==
    /\ req[r].pc = "settled" /\ IsTrack(req[r])
    /\ errorCount' = IF req[r].outcome = "rejected" THEN errorCount + 1 ELSE errorCount
    /\ req' = [req EXCEPT ![r].pc = "done", ![r].resp = TrackReplyOf(req[r])]
    /\ UNCHANGED <<dbConnected, lastDbCheck, requestCount, trackingCount, reader, visits, mon>>

StatsReply(r) ==
    /\ req[r].pc = "settled" /\ req[r].route = "stats"
    /\ errorCount' = IF req[r].outcome = "rejected" THEN errorCount + 1 ELSE errorCount
    /\ req' = [req EXCEPT ![r].pc = "done", ![r].resp = StatsReplyOf(req[r])]
    /\ UNCHANGED <<dbConnected, lastDbCheck, requestCount, trackingCount, reader, visits, mon>>

(***************************************************************************)
(* The server: requests of every route, served concurrently.               *)
(***************************************************************************)
Next ==
    \E r \in Slots :
        \/ Health(r)
        \/ Ready(r)
        \/ TrackPost(r)
        \/ TrackGet(r)
        \/ Stats(r)
        \/ OperationResolves(r)
        \/ OperationThrows(r)
        \/ TimerFires(r)
        \/ HealthReply(r)
        \/ ReadyReply(r)
        \/ TrackReply(r)
        \/ StatsReply(r)

Spec == Init /\ [][Next]_vars

(***************************************************************************)
(* The tracking endpoint alone, with a reachable database and without a    *)
(* city database: one request at a time, of every shape.                   *)
(***************************************************************************)
NextTrack ==
    \/ TrackPostAny("r1")
    \/ TrackGetAny("r1")
    \/ OperationResolves("r1")
    \/ TrackReply("r1")

TrackSpec == Init /\ [][NextTrack]_vars

(***************************************************************************)
(* The tracking endpoint while the city database loads in the background:  *)
(* initGeoIp() is started and not awaited before the server listens.       *)
(***************************************************************************)
\* reader = await Reader.open(dbPath)
InitGeoIp ==
    /\ reader = "none"
    /\ reader' = "loaded"
    /\ UNCHANGED <<dbConnected, lastDbCheck, requestCount, trackingCount, errorCount,
                   req, visits, mon>>

NextGeo ==
    \/ InitGeoIp
    \/ TrackPostGeo("r1")
    \/ OperationResolves("r1")
    \/ OperationThrows("r1")
    \/ TimerFires("r1")
    \/ TrackReply("r1")

GeoSpec == Init /\ [][NextGeo]_vars

(***************************************************************************)
(* The tracking endpoint with a database that fails in every way: a call   *)
(* can be refused, violate a constraint, or be applied and lose its answer.*)
(***************************************************************************)
NextWrite ==
    \/ TrackPostWrite("r1")
    \/ OperationResolves("r1")
    \/ OperationThrows("r1")
    \/ ResponseLost("r1")
    \/ TimerFires("r1")
    \/ TrackReply("r1")

WriteSpec == Init /\ [][NextWrite]_vars

(***************************************************************************)
(* The probes alone, one at a time, with a check that can reject with any  *)
(* value: the handlers' catch blocks also provide for a value that is no   *)
(* Error object.                                                           *)
(***************************************************************************)
NextProbe ==
    \/ Health("r1")
    \/ Ready("r1")
    \/ OperationResolves("r1")
    \/ OperationThrowsAny("r1")
    \/ TimerFires("r1")
    \/ HealthReply("r1")
    \/ ReadyReply("r1")

ProbeSpec == Init /\ [][NextProbe]_vars

(***************************************************************************)
(* withDbRetry alone, called with options the caller chooses.  Every       *)
(* operation() call settles and every timer fires (weak fairness): node's  *)
(* event loop runs a continuation once its promise has settled.            *)
(***************************************************************************)
NextRetry ==
    \E r \in Slots :
        \/ Call(r)
        \/ OperationResolves(r)
        \/ OperationThrows(r)
        \/ TimerFires(r)

RetrySpec ==
    /\ Init
    /\ [][NextRetry]_vars
    /\ \A r \in Slots : WF_vars(OperationResolves(r) \/ OperationThrows(r))
    /\ \A r \in Slots : WF_vars(TimerFires(r))

(***************************************************************************)
(* The monitor against the server.  curl either reaches the server, where  *)
(* its request is a GET /health like any other, or fails to connect and    *)
(* the script substitutes "000".                                           *)
(***************************************************************************)
MonitorCurl ==
    /\ mon.pc = "loop"
    /\ Free("r1") /\ requestCount < MaxRequests
    /\ requestCount' = requestCount + 1
    /\ req' = [req EXCEPT !["r1"] = StartRetry("health", HealthOptions)]
    /\ mon' = [mon EXCEPT !.pc = "curl"]
    /\ UNCHANGED <<dbConnected, lastDbCheck, trackingCount, errorCount, reader, visits>>

MonitorCurlFails ==
    /\ mon.pc = "loop"
    /\ mon' = AfterCheckFailed(mon, "000")
    /\ UNCHANGED <<dbConnected, lastDbCheck, requestCount, trackingCount, errorCount,
                   req, reader, visits>>

MonitorReceives ==
    /\ mon.pc = "curl" /\ req["r1"].pc = "done"
    /\ LET resp == req["r1"].resp IN
       mon' = IF resp.code = 200 /\ resp.status = "healthy"
              THEN [mon EXCEPT !.pc = "passed", !.response = "200"]
              ELSE AfterCheckFailed(mon, IF resp.code = 200 THEN "200" ELSE "503")
    /\ UNCHANGED <<dbConnected, lastDbCheck, requestCount, trackingCount, errorCount,
                   req, reader, visits>>

MonitorWakes ==
    /\ mon.pc = "sleep"
    /\ mon' = [mon EXCEPT !.pc = "loop"]
    /\ UNCHANGED <<dbConnected, lastDbCheck, requestCount, trackingCount, errorCount,
                   req, reader, visits>>

NextMonitor ==
    \/ MonitorCurl \/ MonitorCurlFails \/ MonitorReceives \/ MonitorWakes
    \/ OperationResolves("r1") \/ OperationThrows("r1")
    \/ TimerFires("r1") \/ HealthReply("r1")

MonitorSpec == Init /\ [][NextMonitor]_vars

(***************************************************************************)
(* checkDbConnection(): declared in index.ts and called by no handler, so  *)
(* it is no disjunct of Next.  now is Date.now(), up whether SELECT 1      *)
(* succeeds.                                                               *)
(***************************************************************************)
DB_CHECK_INTERVAL == 5000

CheckDbConnection(now, up) ==
    IF dbConnected /\ now - lastDbCheck < DB_CHECK_INTERVAL
    THEN UNCHANGED vars
    ELSE /\ dbConnected' = up
         /\ lastDbCheck' = IF up THEN now ELSE lastDbCheck
         /\ UNCHANGED <<requestCount, trackingCount, errorCount, req, reader, visits, mon>>

(***************************************************************************)
(* Properties.                                                             *)
(***************************************************************************)
\* the substrings that make withDbRetry retry, as the documentation lists them
TransientNeedles ==
    {<<"ECONNREFUSED">>, <<"connection">>, <<"timeout">>, <<"ETIMEDOUT">>,
     <<"Can't", "reach", "database">>}

MentionsTransient(msg) == \E n \in TransientNeedles : Includes(msg, n)

\* thrown values that report a connectivity failure, and those that report a
\* logic or validation failure of the operation itself
TransientValues == {ErrRefused, ErrReach, StrTimeout}
LogicValues == {ErrUnique, ErrFkConn, StrBad}

\* min(initialDelayMs * 2^(k-1), maxDelayMs)
ExpectedDelay(opts, k) ==
    IF opts.initialDelayMs * 2^(k - 1) < opts.maxDelayMs
    THEN opts.initialDelayMs * 2^(k - 1) ELSE opts.maxDelayMs

\* the sum of the first n backoff delays
RECURSIVE ExpectedTotal(_, _)
ExpectedTotal(opts, n) ==
    IF n <= 0 THEN 0 ELSE ExpectedTotal(opts, n - 1) + ExpectedDelay(opts, n)

\* request r has just completed an attempt in this step
AttemptEnds(r) == req[r].pc = "op" /\ req'[r].pc # "op"

\* C1: an operation that fails with a retryable error on every call is invoked
\* exactly maxRetries times (never more while it runs, exactly that many when
\* withDbRetry rejects), and every wait is at most maxDelayMs.
C1_ExactlyMaxRetriesCalls ==
    \A r \in Slots :
        LET q == req[r] IN
        /\ q.calls <= q.opts.maxRetries
        /\ (q.outcome = "rejected" /\ MentionsTransient(q.lastError.msg))
              => q.calls = q.opts.maxRetries
        /\ \A k \in DOMAIN q.waits : q.waits[k] <= q.opts.maxDelayMs

\* C1 witness: a call with maxRetries 3 has failed three times with a
\* retryable error, and its second wait was capped at maxDelayMs
C1_Witness ==
    \E r \in Slots :
        LET q == req[r] IN
        /\ q.outcome = "rejected" /\ q.thrown = ErrRefused
        /\ q.opts.maxRetries = 3 /\ q.calls = 3
        /\ q.waits = <<10000, 15000>>

\* C2 (as claimed): a validation-class error ends withDbRetry at once, without
\* a wait, and the caller receives exactly the thrown value.
C2_Original ==
    \A r \in Slots :
        LET q == req[r] IN
        q.thrown \in LogicValues =>
            /\ q.outcome = "rejected"
            /\ Len(q.waits) = q.calls - 1
            /\ q.lastError = q.thrown

\* C2 (amended): a thrown value whose message holds none of the retryable
\* substrings ends withDbRetry at once, without a wait (one invocation when it
\* is the first attempt), and the caller receives the value itself when it is
\* an Error object and otherwise a new Error carrying String(value).
C2_Amended ==
    \A r \in Slots :
        LET q == req[r] IN
        (q.thrown # NoError /\ ~MentionsTransient(q.thrown.msg)) =>
            /\ q.outcome = "rejected"
            /\ Len(q.waits) = q.calls - 1
            /\ q.attempt = q.calls
            /\ q.lastError.isErr /\ q.lastError.msg = q.thrown.msg
            /\ q.thrown.isErr => q.lastError = q.thrown

\* C2 witness: the first attempt threw the string "bad input"; the caller got
\* an Error wrapping it after one invocation and no wait
C2_Witness ==
    \E r \in Slots :
        LET q == req[r] IN
        /\ q.thrown = StrBad /\ q.outcome = "rejected"
        /\ q.calls = 1 /\ q.waits = <<>>
        /\ q.lastError = [isErr |-> TRUE, msg |-> <<"bad", "input">>]

\* C3 (as claimed): a logic error rethrown by withDbRetry leaves a true
\* dbConnected true.
C3_LogicErrorKeepsFlag ==
    [][\A r \in Slots :
          (/\ AttemptEnds(r)
           /\ req'[r].outcome = "rejected"
           /\ req'[r].thrown = ErrUnique
           /\ dbConnected) => dbConnected']_vars

\* C4: in the step in which a withDbRetry call resolves, dbConnected becomes
\* (or stays) true; in the step in which it rejects after maxRetries retryable
\* failures, dbConnected becomes false.
C4_FlagAtReturn ==
    [][\A r \in Slots :
          /\ (AttemptEnds(r) /\ req'[r].outcome = "resolved") => dbConnected' = TRUE
          /\ (/\ AttemptEnds(r)
              /\ req'[r].outcome = "rejected"
              /\ MentionsTransient(req'[r].lastError.msg))
                 => (dbConnected' = FALSE /\ req'[r].calls = req'[r].opts.maxRetries)
      ]_vars

\* C4 witness: one call has resolved, another has since exhausted its
\* attempts, and the flag is false
C4_Witness ==
    \E r, s \in Slots :
        /\ req[r].outcome = "resolved"
        /\ req[s].outcome = "rejected" /\ req[s].thrown = ErrRefused
        /\ req[s].calls = req[s].opts.maxRetries
        /\ dbConnected = FALSE

\* C5 (as claimed): dbConnected changes to true only when a withDbRetry
\* operation succeeds, and to false only when withDbRetry rejects (retries
\* exhausted or a non-retryable error).
C5_Original ==
    [][dbConnected' # dbConnected =>
          \E r \in Slots :
              /\ AttemptEnds(r)
              /\ \/ dbConnected' = TRUE /\ req'[r].outcome = "resolved"
                 \/ dbConnected' = FALSE /\ req'[r].outcome = "rejected"
      ]_vars

\* C5 (amended): dbConnected changes to true only when a withDbRetry operation
\* succeeds, and to false only when an attempt of a withDbRetry operation
\* fails: one that will be retried (the wait follows), the last one, or one
\* with a non-retryable error.  No step of a handler changes it.
C5_Amended ==
    [][dbConnected' # dbConnected =>
          \E r \in Slots :
              /\ AttemptEnds(r)
              /\ \/ dbConnected' = TRUE /\ req'[r].outcome = "resolved"
                 \/ /\ dbConnected' = FALSE
                    /\ req'[r].thrown # NoError
                    /\ req'[r].pc = "wait" \/ req'[r].outcome = "rejected"
      ]_vars

\* C5 witness: after a success set the flag, the first attempt of another
\* request failed with a retryable error; it waits for its retry and the
\* flag is false
C5_Witness ==
    \E r, s \in Slots :
        /\ req[r].outcome = "resolved"
        /\ req[s].pc = "wait" /\ req[s].calls = 1
        /\ dbConnected = FALSE

\* C6: the k-th failed attempt, when its error is retryable and k < maxRetries,
\* clears dbConnected and starts a wait of min(initialDelayMs * 2^(k-1),
\* maxDelayMs); the waits never decrease; the last failed attempt starts none.
C6_BackoffSchedule ==
    /\ [](\A r \in Slots :
            LET q == req[r] IN
            /\ Len(q.waits) <= q.opts.maxRetries - 1
            /\ \A k \in DOMAIN q.waits :
                  /\ q.waits[k] = ExpectedDelay(q.opts, k)
                  /\ k > 1 => q.waits[k - 1] <= q.waits[k])
    /\ [][\A r \in Slots :
            /\ (/\ AttemptEnds(r)
                /\ req'[r].outcome # "resolved"
                /\ MentionsTransient(req'[r].lastError.msg)
                /\ req[r].calls < req[r].opts.maxRetries)
                  => /\ dbConnected' = FALSE
                     /\ req'[r].pc = "wait"
                     /\ req'[r].waits =
                           Append(req[r].waits, ExpectedDelay(req[r].opts, req[r].calls))
            /\ (AttemptEnds(r) /\ req[r].calls = req[r].opts.maxRetries)
                  => /\ req'[r].waits = req[r].waits
                     /\ req'[r].pc = "settled"
         ]_vars

\* C6 witness: /health waits after its fifth failed attempt; the waits so far
\* are 3 s, 6 s, 12 s and twice the 15 s ceiling
C6_Witness ==
    \E r \in Slots :
        /\ req[r].route = "health" /\ req[r].pc = "wait"
        /\ req[r].waits = <<3000, 6000, 12000, 15000, 15000>>

\* C7: a call that succeeds on attempt k after k-1 retryable failures has
\* waited the sum of the first k-1 backoff delays and makes no further
\* attempt; /ready succeeding on the 5th attempt answers 200 "ready" after
\* 45 s of waiting.
C7_SuccessAfterRetries ==
    /\ [](\A r \in Slots :
            LET q == req[r] IN
            q.outcome = "resolved" =>
                /\ q.pc \in {"settled", "done"}
                /\ Len(q.waits) = q.calls - 1
                /\ SumSeq(q.waits) = ExpectedTotal(q.opts, q.calls - 1)
                /\ (q.route = "ready" /\ q.calls = 5) => SumSeq(q.waits) = 45000
                /\ (q.route = "ready" /\ q.pc = "done")
                      => q.resp = [code |-> 200, status |-> "ready",
                                   database |-> "-", error |-> <<>>])
    /\ [][\A r \in Slots :
            (req[r].outcome = "resolved" /\ req[r].pc = "settled")
                => (req'[r].calls = req[r].calls /\ req'[r].outcome = "resolved")
         ]_vars

\* C7 witness: /ready answered 200 "ready" after 4 failures and 45 s of waits
C7_Witness ==
    \E r \in Slots :
        /\ req[r].route = "ready" /\ req[r].pc = "done"
        /\ req[r].calls = 5 /\ req[r].resp.code = 200 /\ req[r].resp.status = "ready"
        /\ req[r].waits = <<5000, 10000, 15000, 15000>>

\* C8: /health whose every attempt fails with a retryable error makes
\* exactly 10 attempts, answers nothing before the 10th has failed, and then
\* answers 503 "unhealthy" with database "disconnected".
C8_HealthExhausts ==
    \A r \in Slots :
        LET q == req[r] IN
        q.route = "health" =>
            /\ q.opts = [maxRetries |-> 10, initialDelayMs |-> 3000, maxDelayMs |-> 15000]
            /\ q.calls <= 10
            /\ q.pc \in {"op", "wait", "settled"} => q.resp.code = 0
            /\ (q.outcome = "rejected" /\ MentionsTransient(q.lastError.msg))
                  => q.calls = 10
            /\ (q.pc = "done" /\ q.outcome = "rejected")
                  => /\ q.resp.code = 503
                     /\ q.resp.status = "unhealthy"
                     /\ q.resp.database = "disconnected"

\* C8 witness: /health answered 503 after ten refused connections
C8_Witness ==
    \E r \in Slots :
        /\ req[r].route = "health" /\ req[r].pc = "done"
        /\ req[r].thrown = ErrRefused /\ req[r].calls = 10
        /\ req[r].resp.code = 503 /\ req[r].resp.database = "disconnected"

\* C9: every withDbRetry call settles (resolves or rejects), after at most
\* maxRetries calls of the operation and a total wait of at most the sum over
\* k = 1..maxRetries of min(initialDelayMs * 2^(k-1), maxDelayMs).
C9_Terminates ==
    /\ \A r \in Slots : (req[r].pc \in {"op", "wait"}) ~> (req[r].pc = "settled")
    /\ [](\A r \in Slots :
            /\ req[r].calls <= req[r].opts.maxRetries
            /\ SumSeq(req[r].waits) <= ExpectedTotal(req[r].opts, req[r].opts.maxRetries))

\* C9 witness: a call with the default options rejected after 5 attempts and
\* 1 + 2 + 4 + 8 = 15 s of waits
C9_Witness ==
    \E r \in Slots :
        /\ req[r].pc = "settled" /\ req[r].outcome = "rejected"
        /\ req[r].opts.maxRetries = 5 /\ req[r].calls = 5
        /\ SumSeq(req[r].waits) = 15000

\* C10 (as claimed): a tracking or stats request whose retries were exhausted
\* on a retryable error is answered 503 "Service temporarily unavailable,
\* please retry".
C10_TransientIs503 ==
    \A r \in Slots :
        LET q == req[r] IN
        (/\ q.route \in {"track_post", "track_get", "stats"}
         /\ q.pc = "done" /\ q.outcome = "rejected"
         /\ q.calls = q.opts.maxRetries
         /\ MentionsTransient(q.lastError.msg))
            => /\ q.resp.code = 503
               /\ q.resp.error =
                     <<"Service", "temporarily", "unavailable,", "please", "retry">>

\* C11: on /api/track and /api/stats an error of the datastore operation whose
\* message holds none of the transient substrings is not retried (no wait and
\* no invocation follows it) and the request is answered 500 with a non-empty
\* error field, never 503.
C11_LogicErrorIs500 ==
    \A r \in Slots :
        LET q == req[r] IN
        (q.route \in {"track_post", "track_get", "stats"}
            /\ q.thrown # NoError /\ ~MentionsTransient(q.thrown.msg)) =>
            /\ q.outcome = "rejected"
            /\ q.pc \in {"settled", "done"}
            /\ Len(q.waits) = q.calls - 1
            /\ q.resp.code # 503
            /\ q.pc = "done" => (q.resp.code = 500 /\ q.resp.error # <<>>)

\* C11 witness: a tracking request and a stats request answered 500 after a
\* constraint violation, the first at its first invocation, the second at its
\* third (after two retried connection failures)
C11_Witness ==
    \E r, s \in Slots :
        /\ IsTrack(req[r]) /\ req[r].pc = "done" /\ req[r].thrown = ErrUnique
        /\ req[r].calls = 1 /\ req[r].resp.code = 500
        /\ req[s].route = "stats" /\ req[s].pc = "done" /\ req[s].thrown = ErrUnique
        /\ req[s].calls = 3 /\ req[s].resp.code = 500

\* the referers that parse as an absolute URL with a non-empty host
UrlsWithHost ==
    {<<"https", "://", "b.example.com", ":", "8443", "/x">>,
     <<"https", "://", "d.example.com", "/">>,
     <<"http", "://", "e.example.com", "/">>}

HasParseableHost(o) == Truthy(o) /\ o[1] \in UrlsWithHost

\* no explicit site_id, no referer with a parseable host, no Host header
NoSiteResolves(t) ==
    /\ ~Truthy(t.site_id)
    /\ ~HasParseableHost(t.referrer)
    /\ ~HasParseableHost(t.headers.referer)
    /\ ~HasParseableHost(t.headers.referrer)
    /\ t.headers.host = None

\* request r arrives in this step
Arrives(r) == Free(r) /\ req'[r] # req[r]

\* C12: a tracking request (GET or POST) for which no site identifier resolves
\* is answered at once with 400 {error: "site_id is required"}: withDbRetry and
\* the datastore are not invoked, nothing is retried, no row is written, and
\* dbConnected, trackingCount and errorCount are unchanged.
C12_NoSiteIs400 ==
    [][\A r \in Slots :
          (Arrives(r) /\ IsTrack(req'[r]) /\ NoSiteResolves(req'[r].input)) =>
              /\ req'[r].pc = "done"
              /\ req'[r].resp = Reply(400, "-", "-", <<"site_id", "is", "required">>)
              /\ req'[r].calls = 0 /\ req'[r].attempt = 0 /\ req'[r].waits = <<>>
              /\ req'[r].outcome = "none"
              /\ UNCHANGED <<dbConnected, trackingCount, errorCount, visits>>]_vars

\* C12 witness: after one recorded visit, a GET with an empty site_id, a
\* referrer that is no URL and no Host header has been answered 400; the flag,
\* the counters and the table are as the first request left them
C12_Witness ==
    LET q == req["r1"] IN
    /\ q.route = "track_get" /\ q.pc = "done" /\ q.resp.code = 400 /\ q.calls = 0
    /\ q.input.site_id = Some(<<>>) /\ q.input.referrer = Some(<<"not", "a", "url">>)
    /\ NoSiteResolves(q.input)
    /\ dbConnected /\ trackingCount = 1 /\ errorCount = 0 /\ Len(visits) = 1

IsProbe(q) == q.route \in {"health", "ready"}

Resolved(q) == ResolveSiteId(q.input.headers, q.input.site_id, q.input.referrer)

\* C14: whenever the caller supplies an explicit site identifier (a non-empty
\* site_id in the body or the query), resolveSiteId returns it, whatever the
\* referrer field, the Referer and Referrer headers and the Host header hold;
\* the handler tracks the visit under that identifier.
C14_ExplicitIdWins ==
    \A r \in Slots :
        LET q == req[r] IN
        (IsTrack(q) /\ Truthy(q.input.site_id)) =>
            /\ Resolved(q) = q.input.site_id
            /\ q.resp.code # 400
            /\ q.siteId = q.input.site_id[1]
            /\ q.row.site_id = q.input.site_id[1]

\* C14 witness: a request with site_id "a", a referrer field and a Referer
\* header that both parse, and an IPv6 Host, has been recorded under "a"
C14_Witness ==
    LET q == req["r1"] IN
    /\ q.pc = "done" /\ q.resp.code = 200 /\ q.siteId = <<"a">>
    /\ q.input.site_id = Some(<<"a">>)
    /\ HasParseableHost(q.input.referrer) /\ HasParseableHost(q.input.headers.referer)
    /\ q.input.headers.host = Some(<<"[", ":", ":", "1", "]", ":", "3000">>)
    /\ visits = <<[NoRow EXCEPT !.site_id = <<"a">>, !.ip_address = <<"8.8.8.8">>,
                                !.referrer = q.input.referrer]>>

\* the hostname of a URL of UrlsWithHost
HostnameOf(u) == <<u[3]>>

\* the one referer resolveSiteId looks at: the referrer field when it is
\* non-empty, else the Referer header when non-empty, else the Referrer header
EffectiveReferer(t) ==
    IF Truthy(t.referrer) THEN t.referrer
    ELSE IF Truthy(t.headers.referer) THEN t.headers.referer
    ELSE t.headers.referrer

\* what resolveSiteId returns for the request of q once every referer is removed
ResolvedWithoutReferer(q) ==
    ResolveSiteId([q.input.headers EXCEPT !.referer = None, !.referrer = None],
                  q.input.site_id, None)

\* C15 (as claimed): without an explicit site id, a Referer header that parses
\* with a non-empty host gives its hostname, whatever the Host header and the
\* referrer field hold.
C15_Original ==
    \A r \in Slots :
        LET q == req[r] IN
        (IsTrack(q) /\ ~Truthy(q.input.site_id)
            /\ HasParseableHost(q.input.headers.referer)) =>
            Resolved(q) = Some(HostnameOf(q.input.headers.referer[1]))

\* C15 (amended): without an explicit site id, resolveSiteId looks at one
\* referer only: the referrer field when non-empty, else the Referer header,
\* else the Referrer header.  When that one parses with a non-empty host, its
\* hostname is returned whatever the Host header holds; when it does not, it
\* is skipped without an error and the result is that of the same request
\* without any referer (a Referer header behind a non-empty referrer field is
\* never consulted).
C15_Amended ==
    \A r \in Slots :
        LET q == req[r]
            e == EffectiveReferer(q.input)
        IN  (IsTrack(q) /\ ~Truthy(q.input.site_id)) =>
                IF HasParseableHost(e)
                THEN /\ Resolved(q) = Some(HostnameOf(e[1]))
                     /\ q.siteId = HostnameOf(e[1])
                     /\ q.resp.code # 400
                ELSE /\ Resolved(q) = ResolvedWithoutReferer(q)
                     /\ q.pc \in {"op", "settled", "done"}

\* C15 witness: a first request with only a Referer header was recorded under
\* the header's hostname; a second one with the same header behind a referrer
\* field that is no URL was recorded under its Host
C15_Witness ==
    LET q == req["r1"] IN
    /\ Len(visits) = 2 /\ visits[1].site_id = <<"b.example.com">>
    /\ q.pc = "done" /\ q.input.site_id = None
    /\ q.input.referrer = Some(<<"not", "a", "url">>)
    /\ HasParseableHost(q.input.headers.referer)
    /\ q.siteId = <<"c.example.com">> /\ visits[2].site_id = <<"c.example.com">>

\* a Host value without its port suffix: the final ":" and port number, if any
StripPort(h) ==
    IF Len(h) >= 2 /\ h[Len(h) - 1] = ":" /\ h[Len(h)] \in {"3000", "8080"}
    THEN SubSeq(h, 1, Len(h) - 2)
    ELSE h

\* C16: without an explicit site id and without a usable referer, resolveSiteId
\* returns the Host header with only its port suffix removed, for a name, a
\* name with port, an IPv4 address with port and a bracketed IPv6 literal with
\* or without port.
C16_HostPortStripped ==
    \A r \in Slots :
        LET q == req[r] IN
        (IsTrack(q) /\ ~Truthy(q.input.site_id)
            /\ ~HasParseableHost(EffectiveReferer(q.input))
            /\ Truthy(q.input.headers.host)) =>
            Resolved(q) = Some(StripPort(q.input.headers.host[1]))

\* C17: every /health and /ready request runs its check through withDbRetry
\* at least once, whatever dbConnected and lastDbCheck hold when it arrives,
\* and its answer is 200 exactly when its own withDbRetry resolved and 503
\* exactly when it rejected, whatever the flag holds when it replies.
C17_ProbeIsFresh ==
    [][\A r \in Slots :
          /\ (Arrives(r) /\ IsProbe(req'[r])) =>
                (req'[r].pc = "op" /\ req'[r].calls = 1)
          /\ (IsProbe(req[r]) /\ req[r].pc = "settled" /\ req'[r].pc = "done") =>
                /\ req'[r].calls >= 1
                /\ (req'[r].resp.code = 200) <=> (req[r].outcome = "resolved")
                /\ (req'[r].resp.code = 503) <=> (req[r].outcome = "rejected")]_vars

\* C17 witness: /health has answered 200 although dbConnected is false (a
\* /ready check failed after the /health check had succeeded), and that /ready
\* has made its twelve calls and answered 503
C17_Witness ==
    \E r, s \in Slots :
        /\ req[r].route = "health" /\ req[r].pc = "done" /\ req[r].resp.code = 200
        /\ req[s].route = "ready" /\ req[s].pc = "done" /\ req[s].resp.code = 503
        /\ req[s].calls = 12
        /\ ~dbConnected /\ lastDbCheck = 0

\* the datastore calls made so far by the probes the slots hold
ProbeCallsOf(r) == IF IsProbe(req[r]) THEN req[r].calls ELSE 0

ProbeCalls == ProbeCallsOf("r1") + ProbeCallsOf("r2")

\* C18 (as claimed): a probe that arrives right after a check that found the
\* datastore connected issues no datastore call.  Time passes in the model
\* only while a timer runs (3 s at least); "right after" is: dbConnected is
\* set, another request's check has succeeded, and no slot has armed a timer.
C18_Original ==
    [][\A r \in Slots :
          (/\ Arrives(r) /\ IsProbe(req'[r])
           /\ dbConnected
           /\ \E s \in Slots \ {r} : req[s].outcome = "resolved"
           /\ \A s \in Slots : req[s].waits = <<>>)
          => req'[r].calls = 0]_vars

\* C18 (amended): the cache limits nothing.  No probe consults it and
\* lastDbCheck is never written; every probe has issued at least one
\* datastore call of its own, so N probes cause at least N calls.
C18_Amended ==
    /\ lastDbCheck = 0
    /\ \A r \in Slots : IsProbe(req[r]) => req[r].calls >= 1
    /\ ProbeCalls >= Cardinality({r \in Slots : IsProbe(req[r])})

\* C18 witness: two probes, neither of which waited, have each made a
\* datastore call that succeeded: two calls inside one window
C18_Witness ==
    /\ req["r1"].route = "health" /\ req["r2"].route = "ready"
    /\ \A r \in Slots : /\ req[r].pc = "done" /\ req[r].resp.code = 200
                        /\ req[r].calls = 1 /\ req[r].waits = <<>>
    /\ dbConnected /\ ProbeCalls = 2

\* C19: withDbRetry is the only place that retries.  A request's operation is
\* invoked at most maxRetries times (8 for /api/track and /api/stats, 10 for
\* /health, 12 for /ready), and once its withDbRetry has settled the handler
\* replies without another invocation.
C19_SoleRetryBoundary ==
    [][\A r \in Slots :
          /\ req'[r].route = "health" => req'[r].calls <= 10
          /\ req'[r].route = "ready" => req'[r].calls <= 12
          /\ req'[r].route \in {"track_post", "track_get", "stats"} => req'[r].calls <= 8
          /\ (req[r].pc \in {"settled", "done"} /\ ~Arrives(r)) =>
                /\ req'[r].pc \in {"settled", "done"}
                /\ req'[r].calls = req[r].calls
                /\ req'[r].waits = req[r].waits]_vars

\* C19 witness: a tracking request answered 503 after exactly 8 failed
\* invocations and a /health answered 503 after exactly 10
C19_Witness ==
    \E r, s \in Slots :
        /\ IsTrack(req[r]) /\ req[r].pc = "done" /\ req[r].resp.code = 503
        /\ req[r].calls = 8 /\ Len(req[r].waits) = 7
        /\ req[s].route = "health" /\ req[s].pc = "done" /\ req[s].resp.code = 503
        /\ req[s].calls = 10 /\ Len(req[s].waits) = 9

\* the addresses the city database knows
LocatedIps == {<<"8.8.8.8">>, <<"81.2.69.160">>}

\* getGeoData gives null: no reader yet, or the lookup of the address throws
NullLookup(rd, ip) == rd = "none" \/ ip \notin LocatedIps

\* request r invokes its operation in this step
Invokes(r) == req[r].pc # "op" /\ req'[r].pc = "op"

\* C20: a null geolocation result is no error.  trackVisit still hands the
\* visit to prisma.visit.create, with city, country and countryCode null, the
\* row is written when the create succeeds, and the reply is 200 exactly when
\* withDbRetry resolved, as it is for a visit that was located.
C20_NullGeoIsNoError ==
    [][\A r \in Slots :
          /\ (Invokes(r) /\ IsTrack(req'[r])) =>
                LET q == req'[r] IN
                /\ q.row.site_id = q.siteId /\ q.row.ip_address = q.input.ip
                /\ NullLookup(reader, q.input.ip) =>
                      (q.row.city = None /\ q.row.country = None
                          /\ q.row.countryCode = None)
          /\ (AttemptEnds(r) /\ IsTrack(req[r]) /\ req'[r].outcome = "resolved") =>
                (visits' = Append(visits, req[r].row) /\ req[r].row # NoRow)
          /\ (IsTrack(req[r]) /\ req[r].pc = "settled" /\ req'[r].pc = "done") =>
                ((req'[r].resp.code = 200) <=> (req[r].outcome = "resolved"))]_vars

\* C20 witness: two visits from the same address have been answered 200; the
\* first, made before the city database was loaded, is stored with null
\* city, country and countryCode, the second with the located values
C20_Witness ==
    LET q == req["r1"] IN
    /\ q.pc = "done" /\ q.resp.code = 200 /\ q.input.ip = <<"81.2.69.160">>
    /\ Len(visits) = 2
    /\ visits[1] = [NoRow EXCEPT !.site_id = <<"a">>, !.ip_address = <<"81.2.69.160">>]
    /\ visits[2] = [visits[1] EXCEPT !.city = Some(<<"London">>),
                       !.country = Some(<<"United", "Kingdom">>),
                       !.countryCode = Some(<<"GB">>)]

\* the referrer a visit of request t is stored with: the referrer field when
\* it is non-empty, else the Referer header
StoredReferrer(t) == IF Truthy(t.referrer) THEN t.referrer ELSE t.headers.referer

\* C21 (as claimed): after m tracking requests, all answered with success,
\* exactly m rows exist, whatever failures and retries took place.
C21_Original ==
    (req["r1"].pc \in {"idle", "done"} /\ errorCount = 0) =>
        Len(visits) = trackingCount

\* C21 (amended): every attempt whose insert is applied adds one row with the
\* resolved site_id and the stored referrer.  The attempt that makes the
\* request succeed adds one; an earlier attempt that was applied but lost its
\* response added one too and was retried; an attempt that fails otherwise
\* adds none.  There are never fewer rows than successful requests.
C21_Amended ==
    [][/\ \A r \in Slots :
             (AttemptEnds(r) /\ IsTrack(req[r])) =>
                 LET q == req[r] IN
                 /\ q.row.site_id = q.siteId
                 /\ q.row.referrer = StoredReferrer(q.input)
                 /\ IF req'[r].outcome = "resolved"
                    THEN /\ visits' = Append(visits, q.row)
                         /\ trackingCount' = trackingCount + 1
                    ELSE IF req'[r].thrown = ErrLost
                    THEN /\ visits' = Append(visits, q.row)
                         /\ trackingCount' = trackingCount
                         /\ req'[r].pc = "wait" \/ q.attempt = q.opts.maxRetries
                    ELSE /\ visits' = visits
                         /\ trackingCount' = trackingCount
       /\ (\A r \in Slots : ~AttemptEnds(r)) => visits' = visits
       /\ Len(visits') >= trackingCount']_vars

\* C21 witness: one request, answered 200 at its second attempt after the
\* first was applied and lost, has left two equal rows for one success
C21_Witness ==
    LET q == req["r1"] IN
    /\ q.pc = "done" /\ q.resp.code = 200 /\ q.calls = 2 /\ q.thrown = ErrLost
    /\ trackingCount = 1 /\ errorCount = 0
    /\ visits = <<q.row, q.row>>
    /\ q.row.site_id = <<"a">>
    /\ q.row.referrer = Some(<<"https", "://", "d.example.com", "/">>)

\* C22: the monitor's delay before each further attempt grows with the attempt
\* number (exponential backoff: every sleep is at least twice the one before),
\* and it reports failure after MAX_RETRIES attempts.
C22_ExponentialBackoff ==
    /\ \A k \in 2..Len(mon.sleeps) : mon.sleeps[k] >= 2 * mon.sleeps[k - 1]
    /\ mon.pc = "failed" => mon.retries = MAX_RETRIES

\* the part of C22 the script does keep: it gives up after MAX_RETRIES attempts
C22_GivesUp ==
    /\ mon.retries <= MAX_RETRIES
    /\ mon.pc = "failed" <=> mon.retries = MAX_RETRIES
    /\ Len(mon.sleeps) = Min(mon.retries, MAX_RETRIES - 1)

\* C23 (as claimed): the pair starts as (false, 0); every withDbRetry call that
\* completes, resolved or rejected, updates the flag and the last-checked
\* timestamp; no step of a /health or /ready request changes either.
C23_Original ==
    /\ dbConnected = FALSE /\ lastDbCheck = 0
    /\ [][\A r \in Slots :
             /\ (AttemptEnds(r) /\ req'[r].pc = "settled")
                   => /\ dbConnected' = (req'[r].outcome = "resolved")
                      /\ lastDbCheck' # lastDbCheck
             /\ (IsProbe(req[r]) /\ req'[r] # req[r])
                   => (dbConnected' = dbConnected /\ lastDbCheck' = lastDbCheck)
        ]_vars

\* C23 (amended): the pair starts as (false, 0).  Every withDbRetry call that
\* completes, resolved or rejected, writes the flag, those of /health and
\* /ready included: these two run their check through withDbRetry and read
\* neither variable.  lastDbCheck is written by nothing that runs: it is 0
\* throughout.  Arrival and reply of a request write neither.
C23_Amended ==
    /\ dbConnected = FALSE /\ lastDbCheck = 0
    /\ [][/\ lastDbCheck' = 0
          /\ \A r \in Slots :
               /\ (AttemptEnds(r) /\ req'[r].pc = "settled")
                     => dbConnected' = (req'[r].outcome = "resolved")
               /\ (req'[r] # req[r] /\ req[r].pc # "op") => dbConnected' = dbConnected
        ]_vars

\* C23 witness: the only request so far is a probe whose check resolved; the
\* flag, false at start, is true and the timestamp is still 0
C23_Witness ==
    \E r \in Slots :
        /\ IsProbe(req[r]) /\ req[r].pc = "done" /\ req[r].outcome = "resolved"
        /\ \A s \in Slots \ {r} : req[s] = IdleReq
        /\ requestCount = 1
        /\ dbConnected = TRUE /\ lastDbCheck = 0

\* C24: http_errors_total counts every request answered with an error status:
\* the step that answers a request of any endpoint with a 4xx or 5xx code
\* increments errorCount by one, and no other step changes it; requestCount
\* is incremented by one by every arriving request.
C24_ErrorsCounted ==
    [][/\ \A r \in Slots :
            /\ (req[r].pc # "done" /\ req'[r].pc = "done" /\ req'[r].resp.code >= 400)
                  => errorCount' = errorCount + 1
            /\ Arrives(r) => requestCount' = requestCount + 1
       /\ (\A r \in Slots : ~(req[r].pc # "done" /\ req'[r].pc = "done"))
             => errorCount' = errorCount
      ]_vars

\* C25: the waits of one /health request add up to at most 90 seconds and
\* those of one /ready request to at most 120 seconds.
C25_ProbeWaitBudget ==
    \A r \in Slots :
        /\ req[r].route = "health" => SumSeq(req[r].waits) <= 90000
        /\ req[r].route = "ready" => SumSeq(req[r].waits) <= 120000

\* C26: /api/track and /api/stats answer 503 only after the retries are
\* exhausted: a request answered 503 has had its operation invoked exactly
\* maxRetries = 8 times, each invocation failed (7 waits lie between them and
\* the call rejected with a retryable error), and every thrown value the
\* handlers take for a database error is one withDbRetry retries.
C26_Only503AfterExhaustion ==
    /\ \A r \in Slots :
          LET q == req[r] IN
          (q.route \in {"track_post", "track_get", "stats"} /\ q.resp.code = 503) =>
              /\ q.opts.maxRetries = 8
              /\ q.calls = q.opts.maxRetries
              /\ Len(q.waits) = q.calls - 1
              /\ q.outcome = "rejected"
              /\ IsDbError(q.lastError) /\ IsRetryable(q.lastError)
    /\ \A v \in ThrownValues \cup PrismaErrors \cup {ErrLost} :
          IsDbError(ToError(v)) => IsRetryable(ToError(v))

\* C26 witness: a stats request answered 503 after its eighth refused
\* connection
C26_Witness ==
    \E r \in Slots :
        /\ req[r].route = "stats" /\ req[r].pc = "done" /\ req[r].resp.code = 503
        /\ req[r].calls = 8 /\ Len(req[r].waits) = 7
        /\ req[r].lastError = ErrRefused

\* C27: concurrent withDbRetry calls are independent.  A step of one call
\* changes no other call's record and, of the shared variables, at most
\* dbConnected; its attempt counter advances by one per retry of its own, its
\* operation is invoked at most its own maxRetries times, and how an attempt
\* ends (resolved, wait, rejected) and the error it keeps follow from its own
\* record and its own operation's result.
C27_Independent ==
    [][\A r \in Slots :
          req'[r] # req[r] =>
             /\ \A s \in Slots \ {r} : req'[s] = req[s]
             /\ UNCHANGED <<lastDbCheck, requestCount, trackingCount, errorCount,
                            reader, visits, mon>>
             /\ req'[r].calls <= req'[r].opts.maxRetries
             /\ req[r].pc = "wait" =>
                   /\ req'[r].attempt = req[r].attempt + 1
                   /\ req'[r].calls = req[r].calls + 1
                   /\ req'[r].lastError = req[r].lastError
             /\ AttemptEnds(r) =>
                   \/ req'[r] = AfterSuccess(req[r])
                   \/ \E v \in ThrownValues : req'[r] = AfterFailure(req[r], v)
      ]_vars

\* C27 witness: two calls with different options ran to their ends: one
\* resolved at its second attempt after a timeout, the other rejected after
\* MaxCallRetries refused connections; each holds its own count and error
C27_Witness ==
    \E r, s \in Slots :
        /\ req[r].outcome = "resolved" /\ req[r].calls = 2
        /\ req[r].lastError = ToError(StrTimeout)
        /\ req[s].outcome = "rejected" /\ req[s].calls = MaxCallRetries
        /\ req[s].opts.maxRetries = MaxCallRetries
        /\ req[s].lastError = ErrRefused

\* C28: the step in which withDbRetry rejects.  The error it throws is the one
\* of the attempt that just failed, not an earlier one; no wait and no
\* invocation is added by the step.  When that error is not retryable, the
\* attempt is the k-th for some k <= maxRetries, the operation has been invoked
\* exactly k times with k-1 waits between (the earlier k-1 failures were
\* retryable); when it is retryable, the attempt is the maxRetries-th.
C28_RethrowsLastError ==
    [][\A r \in Slots :
          (AttemptEnds(r) /\ req'[r].outcome = "rejected") =>
             LET q == req[r]
                 p == req'[r]
             IN /\ p.thrown # NoError /\ p.lastError = ToError(p.thrown)
                /\ p.calls = q.calls /\ p.waits = q.waits
                /\ p.calls = q.attempt /\ Len(p.waits) = p.calls - 1
                /\ p.calls <= p.opts.maxRetries
                /\ IsRetryable(p.lastError) => p.calls = p.opts.maxRetries
                /\ \A k \in 1..Len(p.waits) : p.waits[k] = BackoffDelay(p.opts, k)
      ]_vars

\* C28 witness: two retryable failures, then a constraint violation at the third of five
\* attempts: rejected with that third error after three invocations and two
\* waits
C28_Witness ==
    \E r \in Slots :
        /\ req[r].pc = "settled" /\ req[r].outcome = "rejected"
        /\ req[r].opts = DefaultOptions
        /\ req[r].thrown = ErrUnique /\ req[r].lastError = ErrUnique
        /\ req[r].calls = 3 /\ req[r].waits = <<1000, 2000>>

\* C29: dbConnected is false until an attempt completes, and from then on it is
\* the outcome of the attempt that completed last, whichever call it belongs
\* to: every step in which an attempt of any withDbRetry call ends assigns it
\* (true when the attempt succeeded, false when it failed, whatever the flag
\* and the other calls' states were), and no other step changes it.
C29_LastWriteWins ==
    /\ dbConnected = FALSE
    /\ [][/\ \A r \in Slots :
               AttemptEnds(r) => dbConnected' = (req'[r].outcome = "resolved")
          /\ (\A r \in Slots : ~AttemptEnds(r)) => dbConnected' = dbConnected
        ]_vars

\* C29 witness: one request waits for its retry after a failed attempt (which
\* cleared the flag); the other's attempt has succeeded since and the flag is
\* true
C29_Witness ==
    \E r, s \in Slots :
        /\ req[s].pc = "wait" /\ req[s].calls = 2
        /\ req[r].outcome = "resolved" /\ req[r].calls = 1
        /\ requestCount = 2
        /\ dbConnected = TRUE

\* C30: every Visit row written by the tracking endpoints has a non-empty
\* site_id.  trackVisit is invoked only with a truthy resolved site identifier:
\* a request for which resolveSiteId gives undefined or the empty string (a
\* Host header that is only a port suffix) is answered 400 without any
\* invocation, and a request whose operation was invoked carries a non-empty
\* site identifier in the row it writes.
C30_NonEmptySiteId ==
    /\ \A i \in 1..Len(visits) : visits[i].site_id # <<>>
    /\ \A r \in Slots :
          LET q == req[r] IN
          IsTrack(q) =>
             /\ Resolved(q) \in {None, Some(<<>>)}
                   => (q.pc = "done" /\ q.resp.code = 400 /\ q.calls = 0)
             /\ q.calls > 0 => (q.siteId # <<>> /\ q.row.site_id = q.siteId)

\* C30 witness: after a visit was recorded, a request with Host ":3000" and
\* nothing else to resolve from gave the empty string and was answered 400;
\* the table still holds the one row
C30_Witness ==
    LET q == req["r1"] IN
    /\ IsTrack(q) /\ q.pc = "done"
    /\ q.input.headers.host = Some(<<":", "3000">>)
    /\ Resolved(q) = Some(<<>>)
    /\ q.resp.code = 400 /\ q.calls = 0
    /\ requestCount = 2 /\ Len(visits) = 1 /\ visits[1].site_id # <<>>

====
